---- MODULE Spec2Model ----
(***************************************************************************)
(* A model of internal/model/chatlab.go: ConvertToChatLab, the conversion  *)
(* of a conversation's messages into the ChatLab export envelope.          *)
(*                                                                         *)
(* Strings that the code only copies and compares are TLA+ strings.  The   *)
(* conversation identifier and name, which the code measures and slices,   *)
(* are sequences of one-byte strings (the identifiers are ASCII, so Go's   *)
(* byte length is the number of elements).                                 *)
(*                                                                         *)
(* A caller converts the same conversation up to MaxCalls times; results   *)
(* keeps the envelopes returned so far, so that two runs can be compared.  *)
(***************************************************************************)
EXTENDS Integers, Sequences, FiniteSets, TLC

VARIABLES
    messages,    \* the input []*Message
    talkerID,    \* the conversation identifier
    talkerName,  \* the conversation display name
    now,         \* the wall clock, in epoch seconds
    pc,          \* "idle" | "loop" : position inside ConvertToChatLab
    i,           \* index of the next message of `for _, msg := range messages`
    isGroup,     \* the local isGroup
    cl,          \* the envelope under construction
    memberMap,   \* the local memberMap, a map from key to ChatLabMember
    ranged,      \* keys of memberMap already visited by the final range loop
    results      \* envelopes returned by the calls made so far

vars == <<messages, talkerID, talkerName, now, pc, i, isGroup, cl, memberMap,
          ranged, results>>

----------------------------------------------------------------------------
(* Bounds of the model. *)

MaxLen == 2      \* longest input message list (roster specification)
MaxCalls == 2    \* how many times the caller converts the same input
MaxAttrs == 2    \* most keys present in one Contents map (extractor specification)

----------------------------------------------------------------------------
(* ChatLab format constants. *)

ChatLabTypeText == 0
ChatLabTypeImage == 1
ChatLabTypeVoice == 2
ChatLabTypeVideo == 3
ChatLabTypeFile == 4
ChatLabTypeEmoji == 5
ChatLabTypeLink == 7
ChatLabTypeLocation == 8
ChatLabTypeRedPacket == 20
ChatLabTypeTransfer == 21
ChatLabTypePoke == 22
ChatLabTypeCall == 23
ChatLabTypeShare == 24
ChatLabTypeReply == 25
ChatLabTypeForward == 26
ChatLabTypeContact == 27
ChatLabTypeSystem == 80
ChatLabTypeRecall == 81
ChatLabTypeOther == 99

ChatLabTypes ==
    { ChatLabTypeText, ChatLabTypeImage, ChatLabTypeVoice, ChatLabTypeVideo,
      ChatLabTypeFile, ChatLabTypeEmoji, ChatLabTypeLink, ChatLabTypeLocation,
      ChatLabTypeRedPacket, ChatLabTypeTransfer, ChatLabTypePoke,
      ChatLabTypeCall, ChatLabTypeShare, ChatLabTypeReply, ChatLabTypeForward,
      ChatLabTypeContact, ChatLabTypeSystem, ChatLabTypeRecall,
      ChatLabTypeOther }

----------------------------------------------------------------------------
(* The message type and sub-type constants the switch statements name.     *)
(* Their numeric values are declared outside chatlab.go; the cases of one  *)
(* Go switch are pairwise distinct constants, which is all the code uses,  *)
(* so each is modelled by its own name.                                    *)

MessageTypeText == "MessageTypeText"
MessageTypeImage == "MessageTypeImage"
MessageTypeVoice == "MessageTypeVoice"
MessageTypeVideo == "MessageTypeVideo"
MessageTypeAnimation == "MessageTypeAnimation"
MessageTypeLocation == "MessageTypeLocation"
MessageTypeCard == "MessageTypeCard"
MessageTypeVOIP == "MessageTypeVOIP"
MessageTypeSystem == "MessageTypeSystem"
MessageTypeShare == "MessageTypeShare"

MessageSubTypeFile == "MessageSubTypeFile"
MessageSubTypeLink == "MessageSubTypeLink"
MessageSubTypeLink2 == "MessageSubTypeLink2"
MessageSubTypeMergeForward == "MessageSubTypeMergeForward"
MessageSubTypeNote == "MessageSubTypeNote"
MessageSubTypeChatRoomNotice == "MessageSubTypeChatRoomNotice"
MessageSubTypeMiniProgram == "MessageSubTypeMiniProgram"
MessageSubTypeMiniProgram2 == "MessageSubTypeMiniProgram2"
MessageSubTypeQuote == "MessageSubTypeQuote"
MessageSubTypePat == "MessageSubTypePat"
MessageSubTypeMusic == "MessageSubTypeMusic"
MessageSubTypePay == "MessageSubTypePay"
MessageSubTypeRedEnvelope == "MessageSubTypeRedEnvelope"
MessageSubTypeRedEnvelopeCover == "MessageSubTypeRedEnvelopeCover"

----------------------------------------------------------------------------
(* The placeholder literals.  The source writes them in Chinese; the model *)
(* writes each as its ASCII rendering, one distinct string per literal.    *)

PlaceholderImage == "[image]"
PlaceholderVoice == "[voice]"
PlaceholderVideo == "[video]"
PlaceholderSticker == "[sticker]"
PlaceholderLocation == "[location]"
PlaceholderCard == "[card]"
PlaceholderCall == "[call]"
PlaceholderRedPacket == "[red packet]"
SelfName == "Me"

----------------------------------------------------------------------------
(* Soft reads of the content attributes. *)

\* v, ok := msg.Contents[key].(string): ok only for a present string value;
\* otherwise v is the zero value "".
StringAttr(msg, key) ==
    IF key \in DOMAIN msg.Contents /\ msg.Contents[key].isString
    THEN [ok |-> TRUE, v |-> msg.Contents[key].s]
    ELSE [ok |-> FALSE, v |-> ""]

----------------------------------------------------------------------------
(* Content extraction, one operator per case of the switch. *)

ImageContentMd5First(msg) ==
    IF StringAttr(msg, "md5").ok THEN StringAttr(msg, "md5").v
    ELSE IF StringAttr(msg, "path").ok THEN StringAttr(msg, "path").v
    ELSE PlaceholderImage

ImageContent(msg) ==
    IF StringAttr(msg, "path").ok THEN StringAttr(msg, "path").v
    ELSE IF StringAttr(msg, "md5").ok THEN StringAttr(msg, "md5").v
    ELSE PlaceholderImage

AnimationContent(msg) ==
    IF StringAttr(msg, "cdnurl").ok THEN StringAttr(msg, "cdnurl").v
    ELSE PlaceholderSticker

LocationContent(msg) ==
    LET label == StringAttr(msg, "label").v
    IN  IF label # "" THEN label ELSE PlaceholderLocation

\* if v, ok := msg.Contents[key].(string); ok { content = v }
AttrOrContent(msg, key) ==
    IF StringAttr(msg, key).ok THEN StringAttr(msg, key).v ELSE msg.Content

LinkContentPlaceholder(msg) ==
    IF StringAttr(msg, "url").ok THEN StringAttr(msg, "url").v ELSE "[link]"

LinkContent(msg) == AttrOrContent(msg, "url")

\* The inner switch on msg.SubType, entered with clType = ChatLabTypeShare.
ShareExtract(msg) ==
    CASE msg.SubType = MessageSubTypeFile ->
            [clType |-> ChatLabTypeFile, content |-> AttrOrContent(msg, "title")]
      [] msg.SubType \in {MessageSubTypeLink, MessageSubTypeLink2} ->
            [clType |-> ChatLabTypeLink, content |-> LinkContent(msg)]
      [] msg.SubType \in {MessageSubTypeMergeForward, MessageSubTypeNote,
                          MessageSubTypeChatRoomNotice} ->
            [clType |-> ChatLabTypeForward, content |-> AttrOrContent(msg, "title")]
      [] msg.SubType \in {MessageSubTypeMiniProgram, MessageSubTypeMiniProgram2} ->
            [clType |-> ChatLabTypeShare, content |-> AttrOrContent(msg, "title")]
      [] msg.SubType = MessageSubTypeQuote ->
            [clType |-> ChatLabTypeReply, content |-> msg.Content]
      [] msg.SubType = MessageSubTypePat ->
            [clType |-> ChatLabTypePoke, content |-> msg.Content]
      [] msg.SubType = MessageSubTypeMusic ->
            [clType |-> ChatLabTypeShare, content |-> AttrOrContent(msg, "url")]
      [] msg.SubType = MessageSubTypePay ->
            [clType |-> ChatLabTypeTransfer, content |-> msg.Content]
      [] msg.SubType \in {MessageSubTypeRedEnvelope, MessageSubTypeRedEnvelopeCover} ->
            [clType |-> ChatLabTypeRedPacket, content |-> PlaceholderRedPacket]
      [] OTHER ->
            [clType |-> ChatLabTypeShare, content |-> msg.Content]

\* Without a default case clType keeps its initial value.
OtherTypeUnset == ChatLabTypeText

\* default: clType = ChatLabTypeOther
OtherType == ChatLabTypeOther

\* The outer switch on msg.Type, entered with clType = ChatLabTypeText and
\* content = msg.Content.
Extract(msg) ==
    CASE msg.Type = MessageTypeText ->
            [clType |-> ChatLabTypeText, content |-> msg.Content]
      [] msg.Type = MessageTypeImage ->
            [clType |-> ChatLabTypeImage, content |-> ImageContent(msg)]
      [] msg.Type = MessageTypeVoice ->
            [clType |-> ChatLabTypeVoice, content |-> PlaceholderVoice]
      [] msg.Type = MessageTypeVideo ->
            [clType |-> ChatLabTypeVideo, content |-> PlaceholderVideo]
      [] msg.Type = MessageTypeAnimation ->
            [clType |-> ChatLabTypeEmoji, content |-> AnimationContent(msg)]
      [] msg.Type = MessageTypeLocation ->
            [clType |-> ChatLabTypeLocation, content |-> LocationContent(msg)]
      [] msg.Type = MessageTypeCard ->
            [clType |-> ChatLabTypeContact, content |-> PlaceholderCard]
      [] msg.Type = MessageTypeVOIP ->
            [clType |-> ChatLabTypeCall, content |-> PlaceholderCall]
      [] msg.Type = MessageTypeSystem ->
            [clType |-> ChatLabTypeSystem, content |-> msg.Content]
      [] msg.Type = MessageTypeShare -> ShareExtract(msg)
      [] OTHER ->
            [clType |-> OtherType, content |-> msg.Content]

----------------------------------------------------------------------------
(* The body of the loop over the messages. *)

ResolveSenderNameNoSelf(msg) == msg.SenderName

\* senderName := msg.SenderName; if msg.IsSelf && senderName == "" { ... }
ResolveSenderName(msg) ==
    IF msg.IsSelf /\ msg.SenderName = "" THEN SelfName ELSE msg.SenderName

\* time.Time.Unix(): the whole seconds since the epoch; the nanoseconds
\* within the second are dropped.
Unix(t) == t.sec

GroupNicknameAlways(grp, senderName) == senderName

\* if isGroup { x.GroupNickname = senderName }; otherwise the zero value.
GroupNickname(grp, senderName) == IF grp THEN senderName ELSE ""

MessageTimestampNow(msg) == now

\* Timestamp: msg.Time.Unix()
MessageTimestamp(msg) == Unix(msg.Time)

\* The ChatLabMessage built for msg.
ClMsg(msg, grp) ==
    LET ex == Extract(msg)
        senderName == ResolveSenderName(msg)
    IN  [ Sender        |-> msg.Sender,
          AccountName   |-> senderName,
          GroupNickname |-> GroupNickname(grp, senderName),
          Timestamp     |-> MessageTimestamp(msg),
          Type          |-> ex.clType,
          Content       |-> ex.content ]

AppendMessageFront(list, clMsg) == <<clMsg>> \o list

\* cl.Messages = append(cl.Messages, clMsg)
AppendMessage(list, clMsg) == Append(list, clMsg)

\* The ChatLabMember built for msg; Aliases and Avatar keep their zero values.
ClMember(msg, grp) ==
    LET senderName == ResolveSenderName(msg)
    IN  [ PlatformID    |-> msg.Sender,
          AccountName   |-> senderName,
          GroupNickname |-> GroupNickname(grp, senderName),
          Aliases       |-> <<>>,
          Avatar        |-> "" ]

\* memberMap[key] = member
MapPut(mm, key, member) ==
    [k \in (DOMAIN mm) \cup {key} |-> IF k = key THEN member ELSE mm[k]]

CollectMemberLastWins(mm, msg, grp) == MapPut(mm, msg.Sender, ClMember(msg, grp))

CollectMemberByName(mm, msg, grp) ==
    IF ResolveSenderName(msg) \in DOMAIN mm THEN mm
    ELSE MapPut(mm, ResolveSenderName(msg), ClMember(msg, grp))

\* if _, exists := memberMap[msg.Sender]; !exists { memberMap[msg.Sender] = member }
CollectMember(mm, msg, grp) ==
    IF msg.Sender \in DOMAIN mm THEN mm
    ELSE MapPut(mm, msg.Sender, ClMember(msg, grp))

----------------------------------------------------------------------------
(* Scope inference. *)

ChatroomSuffix == <<"@", "c", "h", "a", "t", "r", "o", "o", "m">>

\* s[from:] for a byte offset from (0-based)
SliceFrom(s, from) == SubSeq(s, from + 1, Len(s))

InferGroupGeq(id) == Len(id) >= 9 /\ SliceFrom(id, Len(id) - 9) = ChatroomSuffix

\* len(talkerID) > 9 && talkerID[len(talkerID)-9:] == "@chatroom"
InferGroup(id) == Len(id) > 9 /\ SliceFrom(id, Len(id) - 9) = ChatroomSuffix

----------------------------------------------------------------------------
(* The actions. *)

\* Entry of ConvertToChatLab up to the first loop: the envelope is
\* constructed (reading the clock), the name falls back to the identifier,
\* the chat type is inferred and memberMap is made.
Call ==
    /\ pc = "idle"
    /\ Len(results) < MaxCalls
    /\ now' \in {now, now + 1}
    /\ isGroup' = InferGroup(talkerID)
    /\ cl' = [ ChatLab  |-> [ Version     |-> "0.0.1",
                             ExportedAt  |-> now',
                             Generator   |-> "Chatlog",
                             Description |-> "" ],
               Meta     |-> [ Name        |-> IF talkerName = <<>> THEN talkerID
                                              ELSE talkerName,
                             Platform    |-> "wechat",
                             Type        |-> IF isGroup' THEN "group" ELSE "private",
                             GroupID     |-> IF isGroup' THEN talkerID ELSE <<>>,
                             GroupAvatar |-> "" ],
               Members  |-> <<>>,
               Messages |-> <<>> ]
    /\ memberMap' = <<>>
    /\ ranged' = {}
    /\ i' = 1
    /\ pc' = "running"
    /\ UNCHANGED <<messages, talkerID, talkerName, results>>

\* One iteration of `for _, msg := range messages`.
LoopStep ==
    /\ pc = "running"
    /\ i <= Len(messages)
    /\ cl' = [cl EXCEPT !.Messages = AppendMessage(@, ClMsg(messages[i], isGroup))]
    /\ memberMap' = CollectMember(memberMap, messages[i], isGroup)
    /\ i' = i + 1
    /\ UNCHANGED <<messages, talkerID, talkerName, now, pc, isGroup, ranged, results>>

\* One iteration of `for _, m := range memberMap`: Go visits each key once,
\* in an order it does not specify.
RangeStep ==
    /\ pc = "running"
    /\ i > Len(messages)
    /\ \E k \in (DOMAIN memberMap) \ ranged :
          /\ cl' = [cl EXCEPT !.Members = Append(@, memberMap[k])]
          /\ ranged' = ranged \cup {k}
    /\ UNCHANGED <<messages, talkerID, talkerName, now, pc, i, isGroup, memberMap,
                   results>>

\* return cl
Return ==
    /\ pc = "running"
    /\ i > Len(messages)
    /\ ranged = DOMAIN memberMap
    /\ results' = Append(results, cl)
    /\ pc' = "idle"
    /\ UNCHANGED <<messages, talkerID, talkerName, now, i, isGroup, cl, memberMap,
                   ranged>>

Next == Call \/ LoopStep \/ RangeStep \/ Return

----------------------------------------------------------------------------
(* Inputs. *)

SeqsUpTo(S, n) == UNION {[1..k -> S] : k \in 0..n}

NoContents == <<>>

\* The state before the first call, for a given input.
Idle(msgs, id, name) ==
    /\ messages = msgs
    /\ talkerID = id
    /\ talkerName = name
    /\ now = 1000
    /\ pc = "idle"
    /\ i = 1
    /\ isGroup = FALSE
    /\ cl = [ ChatLab  |-> [ Version |-> "", ExportedAt |-> 0, Generator |-> "",
                             Description |-> "" ],
              Meta     |-> [ Name |-> <<>>, Platform |-> "", Type |-> "",
                             GroupID |-> <<>>, GroupAvatar |-> "" ],
              Members  |-> <<>>,
              Messages |-> <<>> ]
    /\ memberMap = <<>>
    /\ ranged = {}
    /\ results = <<>>

PrivateID == <<"w", "x", "i", "d", "_", "a", "b", "c", "1", "2", "3">>
GroupID == <<"1", "2", "3", "4", "5">> \o ChatroomSuffix

\* Roster inputs: text messages of two senders, named or not, own or not,
\* at two instants.
RosterMessages ==
    [ Sender     : {"wxid_a", "wxid_b"},
      SenderName : {"", "Al"},
      IsSelf     : BOOLEAN,
      Time       : {[sec |-> 100, nsec |-> 0], [sec |-> 200, nsec |-> 500]},
      Type       : {MessageTypeText},
      SubType    : {"0"},
      Content    : {"hi"},
      Contents   : {NoContents} ]

Init ==
    \E msgs \in SeqsUpTo(RosterMessages, MaxLen), id \in {PrivateID, GroupID} :
        Idle(msgs, id, <<>>)

Spec == Init /\ [][Next]_vars

----------------------------------------------------------------------------
(* Extractor inputs: one message of every primary type and sub-type, with  *)
(* content attributes absent, present but not strings, empty strings, or   *)
(* a string that names its key.                                            *)

AttrKeys == {"path", "md5", "cdnurl", "label", "title", "url"}

AttrText(key) ==
    CASE key = "path"   -> "/tmp/a.jpg"
      [] key = "md5"    -> "d41d8cd9"
      [] key = "cdnurl" -> "http://cdn.test/e.gif"
      [] key = "label"  -> "Park"
      [] key = "title"  -> "Report.pdf"
      [] key = "url"    -> "https://x.test"

NonString == [isString |-> FALSE, s |-> ""]

AttrValues(key) ==
    {NonString, [isString |-> TRUE, s |-> ""], [isString |-> TRUE, s |-> AttrText(key)]}

AllContents ==
    UNION { { f \in [K -> UNION {AttrValues(k) : k \in AttrKeys}] :
                \A k \in K : f[k] \in AttrValues(k) } :
            K \in {K \in SUBSET AttrKeys : Cardinality(K) <= MaxAttrs} }

RecognizedTypes ==
    { MessageTypeText, MessageTypeImage, MessageTypeVoice, MessageTypeVideo,
      MessageTypeAnimation, MessageTypeLocation, MessageTypeCard, MessageTypeVOIP,
      MessageTypeSystem, MessageTypeShare }

MatchedSubTypes ==
    { MessageSubTypeFile, MessageSubTypeLink, MessageSubTypeLink2,
      MessageSubTypeMergeForward, MessageSubTypeNote, MessageSubTypeChatRoomNotice,
      MessageSubTypeMiniProgram, MessageSubTypeMiniProgram2, MessageSubTypeQuote,
      MessageSubTypePat, MessageSubTypeMusic, MessageSubTypePay,
      MessageSubTypeRedEnvelope, MessageSubTypeRedEnvelopeCover }

\* A type, and a sub-type, that no case names.
UnrecognizedType == "MessageTypeUnrecognized"
UnmatchedSubType == "MessageSubTypeUnmatched"

\* Every sub-type under share; two sub-types under every other type.
TypePairs ==
    ({MessageTypeShare} \X (MatchedSubTypes \cup {UnmatchedSubType, "0"}))
    \cup (((RecognizedTypes \ {MessageTypeShare}) \cup {UnrecognizedType})
          \X {"0", MessageSubTypeLink})

ExtractMessages ==
    { [ Sender     |-> "wxid_a",
        SenderName |-> "Al",
        IsSelf     |-> FALSE,
        Time       |-> [sec |-> 100, nsec |-> 0],
        Type       |-> tp[1],
        SubType    |-> tp[2],
        Content    |-> c,
        Contents   |-> f ] :
      tp \in TypePairs, c \in {"", "hi"}, f \in AllContents }

InitExtract ==
    \E m \in ExtractMessages : Idle(<<m>>, PrivateID, <<>>)

SpecExtract == InitExtract /\ [][Next]_vars

----------------------------------------------------------------------------
(* Scope inputs: identifiers around the suffix test, under two names and   *)
(* three message lists.                                                    *)

ScopeIDs ==
    { <<>>,
      ChatroomSuffix,
      <<"1">> \o ChatroomSuffix,
      GroupID,
      PrivateID,
      ChatroomSuffix \o <<"x">>,
      <<"1", "2">> \o SubSeq(ChatroomSuffix, 2, 9),
      <<"1", "@", "C", "h", "a", "t", "r", "o", "o", "m">>,
      <<"c", "h", "a", "t", "r", "o", "o", "m">>,
      ChatroomSuffix \o ChatroomSuffix,
      <<"@">> }

ScopeNames == {<<>>, <<"F", "a", "m">>, GroupID}

ScopeMessageLists ==
    { <<>>,
      <<[ Sender |-> "wxid_a", SenderName |-> "Al", IsSelf |-> FALSE,
          Time |-> [sec |-> 100, nsec |-> 0], Type |-> MessageTypeText,
          SubType |-> "0", Content |-> "hi", Contents |-> NoContents ]>>,
      <<[ Sender |-> "wxid_b", SenderName |-> "", IsSelf |-> TRUE,
          Time |-> [sec |-> 200, nsec |-> 500], Type |-> MessageTypeVoice,
          SubType |-> "0", Content |-> "", Contents |-> NoContents ]>> }

InitScope ==
    \E msgs \in ScopeMessageLists, id \in ScopeIDs, name \in ScopeNames :
        Idle(msgs, id, name)

SpecScope == InitScope /\ [][Next]_vars

----------------------------------------------------------------------------
(* Vocabulary of the properties. *)

Returned == {results[r] : r \in DOMAIN results}

\* The display name the self-name rule gives message m.
Resolved(m) == IF m.IsSelf /\ m.SenderName = "" THEN SelfName ELSE m.SenderName

\* Index of the first message sent by sender.
FirstBy(sender) ==
    CHOOSE j \in DOMAIN messages :
        /\ messages[j].Sender = sender
        /\ \A k \in 1..(j - 1) : messages[k].Sender # sender

HasString(m, key) == key \in DOMAIN m.Contents /\ m.Contents[key].isString

----------------------------------------------------------------------------
(* C1: every returned envelope has exactly as many messages as the input,  *)
(* and its i-th message carries the sender and the epoch second of the     *)
(* i-th input message: nothing dropped, duplicated, filtered or reordered. *)
C1_MessagesInOrder ==
    \A env \in Returned :
        /\ Len(env.Messages) = Len(messages)
        /\ \A j \in DOMAIN messages :
              /\ env.Messages[j].Sender = messages[j].Sender
              /\ env.Messages[j].Timestamp = messages[j].Time.sec

C1_Witness ==
    /\ Len(results) >= 1
    /\ Len(messages) = 2
    /\ messages[1].Sender # messages[2].Sender
    /\ messages[1].Time.sec > messages[2].Time.sec

(* C2: the platform identifiers of a returned roster are exactly the       *)
(* sender identifiers of the input, no two Members share one, and an empty *)
(* input gives an empty roster.                                            *)
C2_RosterIsSenders ==
    \A env \in Returned :
        LET ms == env.Members
        IN  /\ {ms[j].PlatformID : j \in DOMAIN ms}
                 = {messages[j].Sender : j \in DOMAIN messages}
            /\ \A j, k \in DOMAIN ms : j # k => ms[j].PlatformID # ms[k].PlatformID
            /\ (messages = <<>> => ms = <<>>)

C2_Witness ==
    /\ Len(results) >= 1
    /\ Len(messages) = 2
    /\ messages[1].Sender = messages[2].Sender
    /\ Resolved(messages[1]) # Resolved(messages[2])
    /\ Len(results[1].Members) = 1

(* C3: first-seen-wins.  A loop iteration over a message whose sender is   *)
(* already in memberMap leaves memberMap unchanged, and every Member of a  *)
(* returned roster carries the name resolved from its sender's first       *)
(* message.                                                                *)
C3_LaterMessageKeepsMap ==
    (pc = "running" /\ i <= Len(messages) /\ messages[i].Sender \in DOMAIN memberMap)
        => (memberMap' = memberMap)

C3_FirstNameFinal ==
    \A env \in Returned :
        \A j \in DOMAIN env.Members :
            /\ env.Members[j].PlatformID \in {messages[k].Sender : k \in DOMAIN messages}
            /\ env.Members[j].AccountName
                 = Resolved(messages[FirstBy(env.Members[j].PlatformID)])

C3_FirstSeenWins == [][C3_LaterMessageKeepsMap]_vars /\ []C3_FirstNameFinal

C3_Witness ==
    /\ Len(results) >= 1
    /\ \E j, k \in DOMAIN messages :
          /\ j < k
          /\ messages[j].Sender = messages[k].Sender
          /\ Resolved(messages[j]) # Resolved(messages[k])
          /\ \E n \in DOMAIN results[1].Members :
                /\ results[1].Members[n].PlatformID = messages[j].Sender
                /\ results[1].Members[n].AccountName # Resolved(messages[k])

(* C4, as stated: every self-authored message with an empty display name   *)
(* has the first-person label as account name in its export message and in *)
(* its sender's roster entry.                                              *)
C4_Original ==
    \A env \in Returned :
        \A j \in DOMAIN messages :
            (messages[j].IsSelf /\ messages[j].SenderName = "") =>
                /\ env.Messages[j].AccountName = SelfName
                /\ \A n \in DOMAIN env.Members :
                      env.Members[n].PlatformID = messages[j].Sender
                          => env.Members[n].AccountName = SelfName

(* C4, amended: every self-authored message with an empty display name has *)
(* the first-person label as account name in its export message, and in    *)
(* its sender's roster entry when it is that sender's first message.       *)
C4_SelfLabel ==
    \A env \in Returned :
        \A j \in DOMAIN messages :
            (messages[j].IsSelf /\ messages[j].SenderName = "") =>
                /\ env.Messages[j].AccountName = SelfName
                /\ (\A k \in 1..(j - 1) : messages[k].Sender # messages[j].Sender)
                     => \E n \in DOMAIN env.Members :
                           /\ env.Members[n].PlatformID = messages[j].Sender
                           /\ env.Members[n].AccountName = SelfName

C4_Witness ==
    /\ Len(results) >= 1
    /\ Len(messages) = 2
    /\ \A j \in 1..2 : messages[j].IsSelf /\ messages[j].SenderName = ""
    /\ messages[1].Sender = messages[2].Sender
    /\ results[1].Messages[2].AccountName = SelfName
    /\ results[1].Members[1].AccountName = SelfName

(* C5, as stated: two runs on the same input return the same message list  *)
(* and the same member list, in the same sequence.                         *)
C5_Original ==
    \A a, b \in Returned :
        /\ a.Messages = b.Messages
        /\ a.Members = b.Members

(* C5, amended: two runs on the same input return the same message list    *)
(* and the same Members, as a set; the sequence of the Members may differ. *)
C5_SameContent ==
    \A a, b \in Returned :
        /\ a.Messages = b.Messages
        /\ {a.Members[j] : j \in DOMAIN a.Members} = {b.Members[j] : j \in DOMAIN b.Members}
        /\ Len(a.Members) = Len(b.Members)
        /\ a.Meta = b.Meta

C5_Witness ==
    /\ Len(results) >= 2
    /\ results[1].ChatLab.ExportedAt # results[2].ChatLab.ExportedAt
    /\ results[1].Members # results[2].Members
    /\ Len(results[1].Messages) = 2

(* C6: the metadata kind is "group", with the group id the identifier,     *)
(* exactly when the identifier is some non-empty prefix followed by        *)
(* "@chatroom"; otherwise the kind is "private" and the group id is empty. *)
(* The messages and the conversation name play no part.                    *)
C6_IsGroupID ==
    \E n \in 1..Len(talkerID) :
        /\ Len(talkerID) = n + 9
        /\ \A k \in 1..9 : talkerID[n + k] = ChatroomSuffix[k]

C6_Scope ==
    \A env \in Returned \cup (IF pc = "running" THEN {cl} ELSE {}) :
        IF C6_IsGroupID
        THEN env.Meta.Type = "group" /\ env.Meta.GroupID = talkerID
        ELSE env.Meta.Type = "private" /\ env.Meta.GroupID = <<>>

C6_Witness ==
    /\ Len(results) >= 1
    /\ talkerID = <<"1">> \o ChatroomSuffix
    /\ talkerName # <<>>
    /\ messages # <<>>
    /\ results[1].Meta.Type = "group"

(* C7: every export message has a defined export code; a message of an     *)
(* unrecognized primary type has code 99 and its original content; a share *)
(* message of an unmatched sub-type has code 24 and its original content.  *)
C7_Total ==
    \A env \in Returned :
        /\ Len(env.Messages) = Len(messages)
        /\ \A j \in DOMAIN messages :
              /\ env.Messages[j].Type \in ChatLabTypes
              /\ messages[j].Type \notin RecognizedTypes =>
                    /\ env.Messages[j].Type = 99
                    /\ env.Messages[j].Content = messages[j].Content
              /\ (messages[j].Type = MessageTypeShare
                    /\ messages[j].SubType \notin MatchedSubTypes) =>
                    /\ env.Messages[j].Type = 24
                    /\ env.Messages[j].Content = messages[j].Content

C7_Witness ==
    /\ Len(results) >= 1
    /\ messages[1].Type = UnrecognizedType
    /\ messages[1].Content = "hi"
    /\ "path" \in DOMAIN messages[1].Contents
    /\ ~messages[1].Contents["path"].isString
    /\ results[1].Messages[1].Type = 99

(* C8: an image message has export type image and content the path         *)
(* attribute if it is a present string, else the md5 attribute if it is a  *)
(* present string, else the image placeholder.                             *)
C8_ImagePriority ==
    \A env \in Returned :
        \A j \in DOMAIN messages :
            messages[j].Type = MessageTypeImage =>
                /\ env.Messages[j].Type = 1
                /\ env.Messages[j].Content =
                      IF HasString(messages[j], "path") THEN messages[j].Contents["path"].s
                      ELSE IF HasString(messages[j], "md5") THEN messages[j].Contents["md5"].s
                      ELSE PlaceholderImage

C8_Witness ==
    /\ Len(results) >= 1
    /\ messages[1].Type = MessageTypeImage
    /\ DOMAIN messages[1].Contents = {"path", "md5"}
    /\ ~messages[1].Contents["path"].isString
    /\ results[1].Messages[1].Content = AttrText("md5")

(* C9: a share message of sub-type link or link-variant-2 has export type  *)
(* link and content the url attribute if it is a present string, else the  *)
(* original content.                                                       *)
C9_LinkContent ==
    \A env \in Returned :
        \A j \in DOMAIN messages :
            (messages[j].Type = MessageTypeShare
               /\ messages[j].SubType \in {MessageSubTypeLink, MessageSubTypeLink2}) =>
                /\ env.Messages[j].Type = 7
                /\ env.Messages[j].Content =
                      IF HasString(messages[j], "url") THEN messages[j].Contents["url"].s
                      ELSE messages[j].Content

C9_Witness ==
    /\ Len(results) >= 1
    /\ messages[1].Type = MessageTypeShare
    /\ messages[1].SubType = MessageSubTypeLink2
    /\ "url" \in DOMAIN messages[1].Contents
    /\ ~messages[1].Contents["url"].isString
    /\ messages[1].Content = ""
    /\ results[1].Messages[1].Content = ""

(* C10: in a group every Member and every export message has its group     *)
(* nickname equal to its account name; in a private conversation every     *)
(* group nickname is empty.                                                 *)
C10_GroupNicknames ==
    \A env \in Returned :
        /\ env.Meta.Type \in {"group", "private"}
        /\ \A j \in DOMAIN env.Members :
              env.Members[j].GroupNickname =
                  IF env.Meta.Type = "group" THEN env.Members[j].AccountName ELSE ""
        /\ \A j \in DOMAIN env.Messages :
              env.Messages[j].GroupNickname =
                  IF env.Meta.Type = "group" THEN env.Messages[j].AccountName ELSE ""

C10_Witness ==
    /\ Len(results) >= 1
    /\ results[1].Meta.Type = "group"
    /\ Len(results[1].Members) = 2
    /\ results[1].Members[1].GroupNickname = SelfName
    /\ results[1].Messages[2].GroupNickname = "Al"

====
